---- MODULE Spec2Model ----
(***************************************************************************)
(* Model of the Google Takeout metadata merger:                            *)
(*   merge_metadata.py  (entry point)                                      *)
(*   process_folder.py  (get_sidecars, process_folder)                     *)
(*   aux_functions.py   (resolver, sniffer, placer, metadata fusion)       *)
(*                                                                         *)
(* File names are sequences of one-character strings, so that splitext,    *)
(* casefold, prefix tests and the "(n)" counters are computed as the code  *)
(* computes them.  A path is a record [dir, name]; dir is a sequence of    *)
(* path components.  The filesystem maps paths to file records.            *)
(***************************************************************************)
EXTENDS Integers, Sequences, FiniteSets, TLC

\* ------------------------------------------------------------------------
\* Characters and strings
\* ------------------------------------------------------------------------
UPPER == <<"A","B","C","D","E","F","G","H","I","J","K","L","M",
           "N","O","P","Q","R","S","T","U","V","W","X","Y","Z">>

LOWER == <<"a","b","c","d","e","f","g","h","i","j","k","l","m",
           "n","o","p","q","r","s","t","u","v","w","x","y","z">>

DIGITS == <<"0","1","2","3","4","5","6","7","8","9">>

ToLower == [c \in {UPPER[i] : i \in 1..26} |->
               LOWER[CHOOSE i \in 1..26 : UPPER[i] = c]]

ToUpper == [c \in {LOWER[i] : i \in 1..26} |->
               UPPER[CHOOSE i \in 1..26 : LOWER[i] = c]]

LowerChar(c) == IF c \in DOMAIN ToLower THEN ToLower[c] ELSE c

UpperChar(c) == IF c \in DOMAIN ToUpper THEN ToUpper[c] ELSE c

\* str.casefold() / str.lower() on the ASCII alphabet of the model
casefold(s) == [i \in 1..Len(s) |-> LowerChar(s[i])]

upper(s) == [i \in 1..Len(s) |-> UpperChar(s[i])]

IsDigit(c) == \E i \in 1..10 : DIGITS[i] = c

DigitVal(c) == (CHOOSE i \in 1..10 : DIGITS[i] = c) - 1

RECURSIVE str(_)
\* str(n) for a non-negative integer, as used by the f-strings "({n})"
str(n) == IF n < 10 THEN <<DIGITS[n + 1]>>
          ELSE str(n \div 10) \o <<DIGITS[(n % 10) + 1]>>

startswith(s, p) == Len(p) <= Len(s) /\ SubSeq(s, 1, Len(p)) = p

endswith(s, p) == Len(p) <= Len(s) /\ SubSeq(s, Len(s) - Len(p) + 1, Len(s)) = p

DropLast(s, k) == SubSeq(s, 1, Len(s) - k)

\* index of the last "." in s, 0 when there is none
LastDot(s) == IF \E i \in 1..Len(s) : s[i] = "."
              THEN CHOOSE i \in 1..Len(s) :
                      s[i] = "." /\ \A j \in (i+1)..Len(s) : s[j] # "."
              ELSE 0

\* os.path.splitext on a bare file name: the extension starts at the last
\* dot unless only dots precede it
splitext(s) ==
    LET d == LastDot(s) IN
    IF d > 0 /\ \E k \in 1..(d-1) : s[k] # "."
    THEN <<SubSeq(s, 1, d - 1), SubSeq(s, d, Len(s))>>
    ELSE <<s, <<>>>>

\* ------------------------------------------------------------------------
\* Google Takeout JSON helpers
\* ------------------------------------------------------------------------
\* the characters fix_title removes (the inverted question mark of the
\* source list is outside the alphabet of the model's names)
DENY == {"%","<",">","=",":","?","*","#","&","{","}","\n","@","!","+","\"","'"}

RECURSIVE RemoveDenied(_)
RemoveDenied(s) == IF s = <<>> THEN <<>>
                   ELSE IF Head(s) \in DENY THEN RemoveDenied(Tail(s))
                   ELSE <<Head(s)>> \o RemoveDenied(Tail(s))

RECURSIVE CollapseRuns(_, _)
\* replaces every run of two or more ch by a single ch
CollapseRuns(s, ch) ==
    IF Len(s) < 2 THEN s
    ELSE IF s[1] = ch /\ s[2] = ch THEN CollapseRuns(Tail(s), ch)
    ELSE <<Head(s)>> \o CollapseRuns(Tail(s), ch)

RECURSIVE lstrip(_, _)
lstrip(s, ch) == IF s # <<>> /\ Head(s) = ch THEN lstrip(Tail(s), ch) ELSE s

RECURSIVE rstrip(_, _)
rstrip(s, ch) == IF s # <<>> /\ s[Len(s)] = ch THEN rstrip(DropLast(s, 1), ch) ELSE s

\* the only whitespace in the model's names is the space
fix_title(title) ==
    LET cleaned == RemoveDenied(title) IN
    rstrip(lstrip(CollapseRuns(cleaned, " "), " "), " ")

SIDE_SUFFIXES ==
    { <<".","s","u","p","p","l","e","m","e","n","t","a","l","-",
        "m","e","t","a","d","a","t","a">>,
      <<".","s","u","p","p","-","m","e","t","a","d","a","t","a">>,
      <<".","s","u","p","p","l">>,
      <<".","s","u","p","p">> }

\* s without a trailing "(digits)" group, or s itself when it has none
StripCounter(s) ==
    IF s # <<>> /\ s[Len(s)] = ")"
       /\ \E i \in 1..(Len(s) - 2) :
             /\ s[i] = "("
             /\ \A k \in (i+1)..(Len(s)-1) : IsDigit(s[k])
    THEN LET i == CHOOSE i \in 1..(Len(s) - 2) :
                     /\ s[i] = "("
                     /\ \A k \in (i+1)..(Len(s)-1) : IsDigit(s[k])
         IN SubSeq(s, 1, i - 1)
    ELSE s

HasSideSuffix(s) == \E w \in SIDE_SUFFIXES : endswith(casefold(s), w)

StripSideSuffix(s) ==
    DropLast(s, Len(CHOOSE w \in SIDE_SUFFIXES : endswith(casefold(s), w)))

\* SIDE_SUFFIX_RE.sub('', base): the suffix, optionally followed by a
\* counter, is removed when it ends the string
strip_json_suffix(base) ==
    IF HasSideSuffix(base) THEN StripSideSuffix(base)
    ELSE IF HasSideSuffix(StripCounter(base)) THEN StripSideSuffix(StripCounter(base))
    ELSE base

sanitize_json_title(base) ==
    rstrip(CollapseRuns(strip_json_suffix(fix_title(base)), "."), ".")

\* ------------------------------------------------------------------------
\* Magic sniffer.  A file's first 32 bytes are one of these header classes.
\* ------------------------------------------------------------------------
Headers == {"jpeg_soi", "png_sig", "tiff_le", "tiff_be", "ftyp_heic",
            "ftyp_qt", "ftyp_isom", "text", "empty"}

\* the value standing for Python's None where a (kind, extension) pair is expected
NoSniff == <<"", <<>>>>

SniffHeader(header) ==
    CASE header = "empty"     -> NoSniff
      [] header = "jpeg_soi"  -> <<"jpeg", <<"j","p","g">>>>
      [] header = "png_sig"   -> <<"png", <<"p","n","g">>>>
      [] header \in {"tiff_le", "tiff_be"} -> <<"tiff", <<"t","i","f">>>>
      [] header = "ftyp_heic" -> <<"heic", <<"h","e","i","c">>>>
      [] header = "ftyp_qt"   -> <<"mov", <<"m","o","v">>>>
      [] header = "ftyp_isom" -> <<"mp4", <<"m","p","4">>>>
      [] OTHER                -> NoSniff

\* ------------------------------------------------------------------------
\* Filename normalization helpers
\* ------------------------------------------------------------------------
RECURSIVE CollapseExt(_, _)
CollapseExt(base, last_ext) ==
    LET be == splitext(base) IN
    IF be[2] # <<>> THEN CollapseExt(be[1], be[2]) ELSE <<base, last_ext>>

collapse_extensions(name) == CollapseExt(name, <<>>)

\* ------------------------------------------------------------------------
\* Paths and the filesystem
\* ------------------------------------------------------------------------
\* the value standing for Python's None where a path is expected
NoPath == [dir |-> <<>>, name |-> <<>>]

join(dir, name) == [dir |-> dir, name |-> name]

\* files directly inside directory dir (os.scandir ... e.is_file())
scandir(fsys, dir) == {p \in DOMAIN fsys : p.dir = dir}

\* directories are implied by the files below them
isdir(fsys, p) ==
    \E q \in DOMAIN fsys : startswith(q.dir, p.dir \o <<p.name>>)

exists(fsys, p) == p \in DOMAIN fsys \/ isdir(fsys, p)

\* names of the files and directories directly inside dir
listdir(fsys, dir) ==
    {p.name : p \in scandir(fsys, dir)}
    \cup {q.dir[Len(dir) + 1] :
            q \in {r \in DOMAIN fsys : startswith(r.dir, dir) /\ r.dir # dir}}

\* open(path,'rb').read(32) fails for anything that is not a readable file
sniff_type(fsys, p) ==
    IF p \in DOMAIN fsys THEN SniffHeader(fsys[p].hdr) ELSE NoSniff

\* ------------------------------------------------------------------------
\* Media resolver (JSON -> actual file)
\* ------------------------------------------------------------------------
media_exts == << <<"h","e","i","c">>, <<"j","p","g">>, <<"j","p","e","g">>,
                <<"p","n","g">>, <<"t","i","f">>, <<"t","i","f","f">>,
                <<"m","o","v">>, <<"m","p","4">>, <<"m","4","v">> >>

\* last duplicate counter tried by add_variants: range(2, 21)
MaxDup == 20

Paren(n) == <<"(">> \o str(n) \o <<")">>

add_variants(stem, ext, edited_word) ==
    LET dotext == <<".">> \o ext IN
    << stem \o dotext,
       stem \o <<"-">> \o edited_word \o dotext,
       stem \o <<"-">> \o upper(edited_word) \o dotext,
       stem \o <<" ","-"," ">> \o edited_word \o dotext,
       stem \o <<" ","(">> \o edited_word \o <<")">> \o dotext,
       stem \o Paren(1) \o dotext,
       stem \o <<" ">> \o Paren(1) \o dotext >>
    \o [i \in 1..(2 * (MaxDup - 1)) |->
          LET n == 2 + ((i - 1) \div 2) IN
          IF i % 2 = 1 THEN stem \o Paren(n) \o dotext
                       ELSE stem \o <<" ">> \o Paren(n) \o dotext]

RECURSIVE AllExts(_, _, _)
\* "for ext in media_exts: add_variants(stem, ext)" from the k-th extension on
AllExts(stem, edited_word, k) ==
    IF k > Len(media_exts) THEN <<>>
    ELSE add_variants(stem, media_exts[k], edited_word)
         \o AllExts(stem, edited_word, k + 1)

IsMediaExt(e) == \E k \in 1..Len(media_exts) : media_exts[k] = e

Candidates(title, edited_word) ==
    LET file_name == splitext(title)[1]
        json_ext  == splitext(title)[2]
    IN  AllExts(file_name, edited_word, 1)
        \o (IF json_ext # <<>> /\ ~IsMediaExt(casefold(Tail(json_ext)))
            THEN AllExts(title, edited_word, 1) ELSE <<>>)

SniffKinds == {"jpeg", "png", "tiff", "heic", "mov", "mp4"}

\* search_media with the exact-case pass left out
search_media_foldfirst(fsys, path, rawtitle, edited_word) ==
    LET title      == sanitize_json_title(rawtitle)
        file_name  == splitext(title)[1]
        candidates == Candidates(title, edited_word)
        Idx        == 1..Len(candidates)
        files      == scandir(fsys, path)
        entries    == {casefold(f.name) : f \in files}
        folded     == {i \in Idx : casefold(candidates[i]) \in entries}
        base_cf    == casefold(file_name)
        prefixed   == {f \in files :
                          /\ startswith(casefold(f.name), base_cf)
                          /\ sniff_type(fsys, f)[1] \in SniffKinds}
        First(S)   == CHOOSE i \in S : \A j \in S : i <= j
    IN  IF folded # {}
        THEN {f \in files :
                 casefold(f.name) = casefold(candidates[First(folded)])}
        ELSE IF prefixed # {} THEN prefixed
        ELSE {NoPath}

\* The set of values search_media can return.  It has more than one element
\* only where the result depends on the order in which os.scandir lists the
\* directory (two names with the same casefold, or two prefix matches).
search_media(fsys, path, rawtitle, edited_word) ==
    LET title      == sanitize_json_title(rawtitle)
        file_name  == splitext(title)[1]
        candidates == Candidates(title, edited_word)
        Idx        == 1..Len(candidates)
        present    == listdir(fsys, path)
        exact      == {i \in Idx : candidates[i] \in present}   \* os.path.exists
        files      == scandir(fsys, path)
        entries    == {casefold(f.name) : f \in files}
        folded     == {i \in Idx : casefold(candidates[i]) \in entries}
        base_cf    == casefold(file_name)
        prefixed   == {f \in files :
                          /\ startswith(casefold(f.name), base_cf)
                          /\ sniff_type(fsys, f)[1] \in SniffKinds}
        First(S)   == CHOOSE i \in S : \A j \in S : i <= j
    IN  IF exact # {} THEN {join(path, candidates[First(exact)])}
        ELSE IF folded # {}
             THEN {f \in files :
                      casefold(f.name) = casefold(candidates[First(folded)])}
        ELSE IF prefixed # {} THEN prefixed
        ELSE {NoPath}

\* ------------------------------------------------------------------------
\* Live Photo partner finder (image -> video)
\* ------------------------------------------------------------------------
VideoKinds == {"mov", "mp4"}

\* The set of values find_live_video_partner can return (more than one only
\* where the directory scan order decides).
find_live_video_partner(fsys, folder, image_basestem) ==
    LET candidates ==
            << join(folder, image_basestem),
               join(folder, image_basestem \o <<".","m","o","v">>),
               join(folder, image_basestem \o <<".","M","O","V">>),
               join(folder, image_basestem \o <<".","m","p","4">>),
               join(folder, image_basestem \o <<".","M","P","4">>),
               join(folder, image_basestem \o <<".","m","4","v">>) >>
        hits == {i \in 1..Len(candidates) :
                    /\ exists(fsys, candidates[i])
                    /\ sniff_type(fsys, candidates[i])[1] \in VideoKinds}
        scanned == {f \in scandir(fsys, folder) :
                       /\ \/ f.name = image_basestem
                          \/ startswith(f.name, image_basestem \o <<".">>)
                       /\ sniff_type(fsys, f)[1] \in VideoKinds}
    IN  IF hits # {} THEN {candidates[CHOOSE i \in hits : \A j \in hits : i <= j]}
        ELSE IF scanned # {} THEN scanned
        ELSE {NoPath}

\* ------------------------------------------------------------------------
\* Descriptor JSON.  A parsed value is a record tagged by t.
\* ------------------------------------------------------------------------
JNull == [t |-> "null"]

JStr(chars) == [t |-> "str", s |-> chars]

JNum(k) == [t |-> "num", n |-> k]

JArr(k) == [t |-> "arr", len |-> k]

JObj(fields) == [t |-> "obj", f |-> fields]

\* a descriptor file's text: well-formed JSON holding value v, or not JSON
Doc(v) == [wellformed |-> TRUE, v |-> v]

Malformed == [wellformed |-> FALSE]

isdict(v) == v.t = "obj"

\* Python truthiness
truthy(v) ==
    CASE v.t = "null" -> FALSE
      [] v.t = "str"  -> v.s # <<>>
      [] v.t = "num"  -> v.n # 0
      [] v.t = "arr"  -> v.len # 0
      [] v.t = "obj"  -> DOMAIN v.f # {}

\* dict.get(key): the value, or None
get(v, key) == IF key \in DOMAIN v.f THEN v.f[key] ELSE JNull

RECURSIVE ParseDigits(_, _)
ParseDigits(chars, acc) ==
    IF chars = <<>> THEN acc
    ELSE ParseDigits(Tail(chars), 10 * acc + DigitVal(Head(chars)))

\* int(v): [ok, n]; ok is FALSE where int() raises
int(v) ==
    CASE v.t = "num" -> [ok |-> TRUE, n |-> v.n]
      [] v.t = "str" ->
            IF v.s # <<>> /\ \A i \in 1..Len(v.s) : IsDigit(v.s[i])
            THEN [ok |-> TRUE, n |-> ParseDigits(v.s, 0)]
            ELSE [ok |-> FALSE, n |-> 0]
      [] OTHER -> [ok |-> FALSE, n |-> 0]

\* the timestamp read from one of the two time fields, or None
TimeOf(j, field) ==
    IF isdict(get(j, field)) /\ truthy(get(get(j, field), "timestamp"))
    THEN LET r == int(get(get(j, field), "timestamp")) IN
         IF r.ok THEN JNum(r.n) ELSE JNull
    ELSE JNull

\* [raised, meta]: raised is TRUE where an exception leaves extract_metadata
extract_metadata(fsys, json_path) ==
    LET doc == fsys[json_path].json
        NoMeta == [timestamp |-> JNull, latitude |-> JNull,
                   longitude |-> JNull, altitude |-> JNull]
    IN
    IF ~doc.wellformed THEN [raised |-> TRUE, meta |-> NoMeta]   \* json.load
    ELSE IF ~isdict(doc.v) THEN [raised |-> TRUE, meta |-> NoMeta] \* j.get
    ELSE
      LET j   == doc.v
          ts1 == TimeOf(j, "photoTakenTime")
          ts  == IF ts1 = JNull THEN TimeOf(j, "creationTime") ELSE ts1
          g   == IF "geoData" \in DOMAIN j.f THEN j.f["geoData"] ELSE JObj(<<>>)
          geo == IF truthy(g) THEN g ELSE JObj(<<>>)
      IN
      IF ~isdict(geo) THEN [raised |-> TRUE, meta |-> NoMeta]    \* geo.get
      ELSE [raised |-> FALSE,
            meta |-> [timestamp |-> ts,
                      latitude  |-> get(geo, "latitude"),
                      longitude |-> get(geo, "longitude"),
                      altitude  |-> get(geo, "altitude")]]

\* ------------------------------------------------------------------------
\* ExifTool writing
\* ------------------------------------------------------------------------
\* datetime.fromtimestamp(ts).strftime(...) in UTC: day number since the
\* epoch and the time of day
fmt_ts(ts) == [day |-> ts \div 86400, hh |-> (ts % 86400) \div 3600,
               mm |-> (ts % 3600) \div 60, ss |-> ts % 60]

valid_num(x) == x # JNull /\ ~(x.t = "str" /\ x.s = <<>>)

NoArgs == [dates |-> FALSE, dt |-> fmt_ts(0), gps |-> FALSE, alt |-> FALSE,
           quicktime_utc |-> FALSE]

build_exiftool_args(fsys, target_path, meta) ==
    [dates |-> truthy(meta.timestamp),
     dt    |-> IF truthy(meta.timestamp) THEN fmt_ts(meta.timestamp.n) ELSE fmt_ts(0),
     gps   |-> valid_num(meta.latitude) /\ valid_num(meta.longitude),
     alt   |-> valid_num(meta.altitude),
     quicktime_utc |-> sniff_type(fsys, target_path)[1] \in VideoKinds]

\* result codes of the external tool: success, a failed write, tool missing
ToolMissing == 127

ExifResults == {0, 1, ToolMissing}

\* the file the tool leaves behind: on success the tags are written and the
\* file's modification time follows ModifyDate ("-FileModifyDate<ModifyDate")
run_exiftool(fsys, args, target, rc) ==
    IF rc = 0 /\ target \in DOMAIN fsys
    THEN [fsys EXCEPT ![target].exif = args,
                      ![target].mtime = IF args.dates
                                        THEN args.dt.day * 86400 + args.dt.hh * 3600
                                             + args.dt.mm * 60 + args.dt.ss
                                        ELSE @]
    ELSE fsys

\* os.utime(path, (mod, mod)); any exception is swallowed
set_fs_times_fallback(fsys, path, timestamp) ==
    IF path \in DOMAIN fsys THEN [fsys EXCEPT ![path].mtime = timestamp] ELSE fsys

\* [rc, fs, utime]: the result code returned, the filesystem afterwards, and
\* whether the direct filesystem-time write was made
apply_metadata_and_fs_times(fsys, target_path, meta, rc) ==
    LET args  == build_exiftool_args(fsys, target_path, meta)
        after == run_exiftool(fsys, args, target_path, rc)
    IN  IF truthy(meta.timestamp)
        THEN [rc |-> rc, utime |-> TRUE,
              fs |-> set_fs_times_fallback(after, target_path, meta.timestamp.n)]
        ELSE [rc |-> rc, utime |-> FALSE, fs |-> after]

\* ------------------------------------------------------------------------
\* Output-only normalization and copy
\* ------------------------------------------------------------------------
RECURSIVE CommonPrefix(_, _)
CommonPrefix(a, b) ==
    IF a # <<>> /\ b # <<>> /\ Head(a) = Head(b)
    THEN 1 + CommonPrefix(Tail(a), Tail(b)) ELSE 0

\* os.path.relpath(d, start) on component sequences; <<>> stands for "."
relpath(d, start) ==
    LET k == CommonPrefix(d, start) IN
    [i \in 1..(Len(start) - k) |-> <<".",".">>] \o SubSeq(d, k + 1, Len(d))

desired_name(fsys, media_path) ==
    LET be         == collapse_extensions(media_path.name)
        sniff      == sniff_type(fsys, media_path)
        target_ext == IF sniff # NoSniff THEN sniff[2]
                      ELSE IF be[2] # <<>> THEN casefold(Tail(be[2])) ELSE <<>>
    IN  IF target_ext # <<>> THEN be[1] \o <<".">> \o target_ext ELSE be[1]

Numbered(out_dir, name, n) ==
    join(out_dir, splitext(name)[1] \o Paren(n) \o splitext(name)[2])

RECURSIVE FreeCandidate(_, _, _, _)
\* the while loop: n += 1 until "stem(n)ext" does not exist
FreeCandidate(fsys, out_dir, name, n) ==
    IF exists(fsys, Numbered(out_dir, name, n))
    THEN FreeCandidate(fsys, out_dir, name, n + 1)
    ELSE Numbered(out_dir, name, n)

\* compute_normalized_output without the collision loop
compute_normalized_output_nocounter(fsys, root_folder, out_folder, media_path) ==
    join(out_folder \o relpath(media_path.dir, root_folder),
         desired_name(fsys, media_path))

\* compute_normalized_output mirroring under the source root
compute_normalized_output_insrc(fsys, root_folder, out_folder, media_path) ==
    LET rel_dir == relpath(media_path.dir, root_folder)
        desired == desired_name(fsys, media_path)
        out_dir == root_folder \o rel_dir
        dst     == join(out_dir, desired)
    IN  IF exists(fsys, dst) THEN FreeCandidate(fsys, out_dir, desired, 1) ELSE dst

compute_normalized_output(fsys, root_folder, out_folder, media_path) ==
    LET rel_dir == relpath(media_path.dir, root_folder)
        desired == desired_name(fsys, media_path)
        out_dir == out_folder \o rel_dir
        dst     == join(out_dir, desired)
    IN  IF exists(fsys, dst) THEN FreeCandidate(fsys, out_dir, desired, 1) ELSE dst

\* shutil.copy2: bytes and timestamps of the source
copy2(fsys, from, to) ==
    [p \in DOMAIN fsys \cup {to} |-> IF p = to THEN fsys[from] ELSE fsys[p]]

\* [dst, copied, fs]
copy_media_to_output(fsys, root_folder, out_folder, media_path) ==
    LET dst == compute_normalized_output(fsys, root_folder, out_folder, media_path) IN
    IF ~exists(fsys, dst)
    THEN [dst |-> dst, copied |-> TRUE, fs |-> copy2(fsys, media_path, dst)]
    ELSE [dst |-> dst, copied |-> FALSE, fs |-> fsys]

\* ------------------------------------------------------------------------
\* Directory walk (process_folder.py)
\* ------------------------------------------------------------------------
EXCLUDE_JSON_BASE ==
    { <<"m","e","t","a","d","a","t","a">>,
      <<"s","h","a","r","e","d","_","a","l","b","u","m","_",
        "c","o","m","m","e","n","t","s">> }

subdirs(fsys, folder) ==
    {SubSeq(q.dir, 1, Len(folder) + 1) :
        q \in {r \in DOMAIN fsys : startswith(r.dir, folder) /\ r.dir # folder}}

RECURSIVE JsonFiles(_, _)
\* the descriptor files get_sidecars visits in folder and below
JsonFiles(fsys, folder) ==
    {p \in scandir(fsys, folder) :
        /\ casefold(splitext(p.name)[2]) = <<".","j","s","o","n">>
        /\ splitext(p.name)[1] \notin EXCLUDE_JSON_BASE}
    \cup UNION {JsonFiles(fsys, d) : d \in subdirs(fsys, folder)}

\* The possible results of get_sidecars, each as the set of its
\* (json_path, media_path) pairs; the list order is the scan order, which
\* the loop of process_folder resolves when it takes the next pair.
get_sidecars(fsys, folder, edited_word) ==
    LET J == JsonFiles(fsys, folder)
        pairs == UNION { {[json |-> j, media |-> m] :
                            m \in search_media(fsys, j.dir, splitext(j.name)[1],
                                               edited_word)} : j \in J }
    IN  {S \in SUBSET pairs :
            \A j \in J : Cardinality({sc \in S : sc.json = j}) = 1}

\* ------------------------------------------------------------------------
\* The export trees and descriptors the runs start from
\* ------------------------------------------------------------------------
SRC == <<"s","r","c">>

OUT == <<"o","u","t">>

ALBUM == <<"a","l","b">>

source_folder == <<SRC>>

output_folder == <<OUT>>

\* argparse default of --edited_word
edited_word == <<"e","d","i","t","e","d">>

MediaFile(header, content) ==
    [hdr |-> header, bytes |-> content, mtime |-> 9,
     exif |-> NoArgs, json |-> Malformed]

JsonFile(doc) ==
    [hdr |-> "text", bytes |-> "json", mtime |-> 9,
     exif |-> NoArgs, json |-> doc]

A_JPG == join(<<SRC, ALBUM>>, <<"a",".","j","p","g">>)

A_MOV == join(<<SRC, ALBUM>>, <<"a",".","m","o","v">>)

A_X_JPG == join(<<SRC, ALBUM>>, <<"a",".","x",".","j","p","g">>)

MediaUniverse ==
    [p \in {A_JPG, A_MOV, A_X_JPG} |->
        CASE p = A_JPG   -> MediaFile("jpeg_soi", "jpg1")
          [] p = A_MOV   -> MediaFile("ftyp_qt", "mov1")
          [] p = A_X_JPG -> MediaFile("jpeg_soi", "jpg2")]

DescriptorUniverse ==
    { join(<<SRC, ALBUM>>, <<"a",".","j","p","g",".","j","s","o","n">>),
      join(<<SRC, ALBUM>>, <<"a",".","m","o","v",".","j","s","o","n">>),
      join(<<SRC, ALBUM>>, <<"a",".","x",".","j","p","g",".","j","s","o","n">>) }

ALBUM_JSON == join(<<SRC>>, <<"m","e","t","a","d","a","t","a",".","j","s","o","n">>)

TimeField(chars) == JObj([timestamp |-> JStr(chars)])

DocGood ==
    Doc(JObj([photoTakenTime |-> TimeField(<<"5">>),
              creationTime   |-> TimeField(<<"7">>),
              geoData |-> JObj([latitude |-> JNum(1), longitude |-> JNum(2),
                                altitude |-> JNum(3)])]))

DocEpoch ==
    Doc(JObj([photoTakenTime |-> TimeField(<<"0">>),
              creationTime   |-> TimeField(<<"7">>)]))

DocBadNumber ==
    Doc(JObj([photoTakenTime |-> TimeField(<<"x">>),
              creationTime   |-> TimeField(<<"7">>)]))

DocArray == Doc(JArr(0))

JsonDocs == {DocGood, DocEpoch, DocBadNumber, DocArray, Malformed}

\* files an earlier use of the output folder may have left there
OLD_A == join(<<OUT, ALBUM>>, <<"a",".","j","p","g">>)

OLD_A1 == join(<<OUT, ALBUM>>, <<"a","(","1",")",".","j","p","g">>)

OutputUniverse == {{}, {OLD_A}, {OLD_A1}}

Tree(M, docs, O) ==
    [p \in M \cup DOMAIN docs \cup {ALBUM_JSON} \cup O |->
        IF p \in M THEN MediaUniverse[p]
        ELSE IF p \in DOMAIN docs THEN JsonFile(docs[p])
        ELSE IF p \in O THEN MediaFile("jpeg_soi", "old")
        ELSE JsonFile(Doc(JObj(<<>>)))]

EmptyFs == [p \in {} |-> MediaFile("empty", "")]

\* number of descriptors of a tree that are not DocGood
MaxIrregular == 1

\* the trees with at most k descriptors and an output folder from Outputs
Trees(k, Outputs) ==
    {EmptyFs} \cup
    UNION { UNION { { Tree(M, docs, O) :
                        docs \in {d \in [D -> JsonDocs] :
                                    Cardinality({j \in D : d[j] # DocGood}) <= MaxIrregular},
                        O \in Outputs }
                    : D \in {E \in SUBSET DescriptorUniverse : Cardinality(E) <= k} }
            : M \in SUBSET DOMAIN MediaUniverse }

\* number of times the program is started on the same source and output
MaxRuns == 2

\* number of descriptors in the trees the program is started on repeatedly
MaxRerunSidecars == 1

\* ------------------------------------------------------------------------
\* State
\* ------------------------------------------------------------------------
VARIABLES
    fs,           \* the filesystem: path -> file
    run,          \* number of the current program run
    pc,           \* position of the run
    sidecars,     \* pairs of the sidecar list not yet iterated
    total,        \* len(sidecars)
    success, failed, linked_live, seen_live,
    json_path, media_path, out_media, meta, rc,
    live_path, out_live,
    trace,        \* history: the operations of the current unit of work
    copies,       \* history: the [src, dst, role] copies made in the current run
    fs0           \* history: the filesystem before the first run

vars == <<fs, run, pc, sidecars, total, success, failed, linked_live, seen_live,
          json_path, media_path, out_media, meta, rc, live_path, out_live,
          trace, copies, fs0>>

NoMetaYet == [timestamp |-> JNull, latitude |-> JNull,
              longitude |-> JNull, altitude |-> JNull]

\* the loop variables are dead between two iterations
ClearUnit ==
    /\ json_path' = NoPath /\ media_path' = NoPath /\ out_media' = NoPath
    /\ meta' = NoMetaYet /\ rc' = 0 /\ live_path' = NoPath /\ out_live' = NoPath

InitOn(trees, start) ==
    /\ fs \in trees
    /\ fs0 = fs
    /\ run = 1
    /\ pc = start
    /\ sidecars = {} /\ total = 0
    /\ success = 0 /\ failed = 0 /\ linked_live = 0 /\ seen_live = {}
    /\ json_path = NoPath /\ media_path = NoPath /\ out_media = NoPath
    /\ meta = NoMetaYet /\ rc = 0 /\ live_path = NoPath /\ out_live = NoPath
    /\ trace = <<>> /\ copies = {}

Init == InitOn(Trees(Cardinality(DescriptorUniverse), OutputUniverse), "main")

\* the first of several runs starts on an empty output folder
InitRerun == InitOn(Trees(MaxRerunSidecars, {{}}), "main")

\* merge_metadata.py: source check, makedirs, then process_folder up to the loop
Main ==
    /\ pc = "main"
    /\ IF ~exists(fs, join(<<>>, SRC))
       THEN /\ pc' = "exit1"
            /\ UNCHANGED <<sidecars, total>>
       ELSE /\ pc' = "loop"
            /\ sidecars' \in get_sidecars(fs, source_folder, edited_word)
            /\ total' = Cardinality(sidecars')
    /\ success' = 0 /\ failed' = 0 /\ linked_live' = 0 /\ seen_live' = {}
    /\ trace' = <<>> /\ copies' = {}
    /\ UNCHANGED <<fs, run, json_path, media_path, out_media, meta, rc,
                   live_path, out_live, fs0>>

\* process_folder lines 39-42: no media for the next sidecar
Missing ==
    /\ pc = "loop"
    /\ \E sc \in sidecars :
          /\ sc.media = NoPath
          /\ sidecars' = sidecars \ {sc}
          /\ trace' = <<[op |-> "missing", src |-> sc.json, dst |-> NoPath]>>
    /\ failed' = failed + 1
    /\ UNCHANGED <<fs, run, pc, total, success, linked_live, seen_live, json_path,
                   media_path, out_media, meta, rc, live_path, out_live, copies, fs0>>

\* process_folder line 45: the next sidecar has media; copy it
CopyMedia ==
    /\ pc = "loop"
    /\ \E sc \in sidecars :
          /\ sc.media # NoPath
          /\ sidecars' = sidecars \ {sc}
          /\ json_path' = sc.json
          /\ media_path' = sc.media
          /\ LET r == copy_media_to_output(fs, source_folder, output_folder, sc.media) IN
               /\ fs' = r.fs
               /\ out_media' = r.dst
               /\ trace' = <<[op |-> IF r.copied THEN "copy" ELSE "skip",
                              src |-> sc.media, dst |-> r.dst]>>
               /\ copies' = IF r.copied
                            THEN copies \cup {[src |-> sc.media, dst |-> r.dst,
                                               role |-> "media"]}
                            ELSE copies
    /\ pc' = "extract"
    /\ UNCHANGED <<run, total, success, failed, linked_live, seen_live, meta, rc,
                   live_path, out_live, fs0>>

\* process_folder line 48; an exception leaving extract_metadata ends the run
ExtractMeta ==
    /\ pc = "extract"
    /\ LET r == extract_metadata(fs, json_path) IN
         IF r.raised
         THEN /\ pc' = "raised"
              /\ meta' = meta
              /\ trace' = Append(trace, [op |-> "raise", src |-> json_path, dst |-> NoPath])
         ELSE /\ pc' = "apply"
              /\ meta' = r.meta
              /\ trace' = Append(trace, [op |-> "extract", src |-> json_path, dst |-> NoPath])
    /\ UNCHANGED <<fs, run, sidecars, total, success, failed, linked_live, seen_live,
                   json_path, media_path, out_media, rc, live_path, out_live,
                   copies, fs0>>

\* process_folder lines 51-57
ApplyMeta ==
    /\ pc = "apply"
    /\ \E code \in ExifResults :
          LET r == apply_metadata_and_fs_times(fs, out_media, meta, code) IN
            /\ fs' = r.fs
            /\ rc' = r.rc
            /\ success' = IF r.rc # 0 THEN success ELSE success + 1
            /\ trace' = Append(trace, [op |-> IF r.utime THEN "apply+utime" ELSE "apply",
                                        src |-> json_path, dst |-> out_media])
    /\ pc' = "live"
    /\ UNCHANGED <<run, sidecars, total, failed, linked_live, seen_live, json_path,
                   media_path, out_media, meta, live_path, out_live, copies, fs0>>

\* FindLive without the test against seen_live
FindLive_unseen ==
    /\ pc = "live"
    /\ LET kind == sniff_type(fs, media_path) IN
         IF kind # NoSniff /\ kind[1] \notin VideoKinds
         THEN \E lp \in find_live_video_partner(fs, media_path.dir,
                                                 splitext(media_path.name)[1]) :
                /\ trace' = Append(trace, [op |-> "search", src |-> media_path, dst |-> lp])
                /\ IF lp # NoPath
                   THEN /\ pc' = "copy_live"
                        /\ live_path' = lp
                        /\ UNCHANGED <<json_path, media_path, out_media, meta, rc, out_live>>
                   ELSE /\ pc' = "loop"
                        /\ ClearUnit
         ELSE /\ pc' = "loop"
              /\ trace' = trace
              /\ ClearUnit
    /\ UNCHANGED <<fs, run, sidecars, total, success, failed, linked_live, seen_live,
                   copies, fs0>>

\* process_folder lines 61-67: look for the Live Photo partner of an image
FindLive ==
    /\ pc = "live"
    /\ LET kind == sniff_type(fs, media_path) IN
         IF kind # NoSniff /\ kind[1] \notin VideoKinds
         THEN \E lp \in find_live_video_partner(fs, media_path.dir,
                                                 splitext(media_path.name)[1]) :
                /\ trace' = Append(trace, [op |-> "search", src |-> media_path, dst |-> lp])
                /\ IF lp # NoPath /\ lp \notin seen_live
                   THEN /\ pc' = "copy_live"
                        /\ live_path' = lp
                        /\ UNCHANGED <<json_path, media_path, out_media, meta, rc, out_live>>
                   ELSE /\ pc' = "loop"
                        /\ ClearUnit
         ELSE /\ pc' = "loop"
              /\ trace' = trace
              /\ ClearUnit
    /\ UNCHANGED <<fs, run, sidecars, total, success, failed, linked_live, seen_live,
                   copies, fs0>>

\* process_folder line 69
CopyLive ==
    /\ pc = "copy_live"
    /\ LET r == copy_media_to_output(fs, source_folder, output_folder, live_path) IN
         /\ fs' = r.fs
         /\ out_live' = r.dst
         /\ trace' = Append(trace, [op |-> IF r.copied THEN "copy" ELSE "skip",
                                     src |-> live_path, dst |-> r.dst])
         /\ copies' = IF r.copied
                      THEN copies \cup {[src |-> live_path, dst |-> r.dst,
                                         role |-> "live"]}
                      ELSE copies
    /\ pc' = "apply_live"
    /\ UNCHANGED <<run, sidecars, total, success, failed, linked_live, seen_live,
                   json_path, media_path, out_media, meta, rc, live_path, fs0>>

\* process_folder lines 70-75
ApplyLive ==
    /\ pc = "apply_live"
    /\ \E code \in ExifResults :
          LET r == apply_metadata_and_fs_times(fs, out_live, meta, code) IN
            /\ fs' = r.fs
            /\ linked_live' = IF r.rc # 0 THEN linked_live ELSE linked_live + 1
            /\ seen_live' = IF r.rc # 0 THEN seen_live ELSE seen_live \cup {live_path}
            /\ trace' = Append(trace, [op |-> IF r.utime THEN "apply+utime" ELSE "apply",
                                        src |-> json_path, dst |-> out_live])
    /\ pc' = "loop"
    /\ ClearUnit
    /\ UNCHANGED <<run, sidecars, total, success, failed, copies, fs0>>

\* process_folder lines 78-81: the loop is over, the summary is printed
Summary ==
    /\ pc = "loop"
    /\ sidecars = {}
    /\ pc' = "done"
    /\ UNCHANGED <<fs, run, sidecars, total, success, failed, linked_live, seen_live,
                   json_path, media_path, out_media, meta, rc, live_path, out_live,
                   trace, copies, fs0>>

\* after a completed run the program is started again on the same source
\* and output folders
Rerun ==
    /\ pc = "done"
    /\ run < MaxRuns
    /\ run' = run + 1
    /\ pc' = "main"
    /\ ClearUnit
    /\ UNCHANGED <<fs, sidecars, total, success, failed, linked_live, seen_live,
                   trace, copies, fs0>>

\* one run of the program
Next ==
    \/ Main
    \/ Missing
    \/ CopyMedia
    \/ ExtractMeta
    \/ ApplyMeta
    \/ FindLive
    \/ CopyLive
    \/ ApplyLive
    \/ Summary

Spec == Init /\ [][Next]_vars

\* repeated runs on the same folders
NextRerun ==
    \/ Next
    \/ Rerun

SpecRerun == InitRerun /\ [][NextRerun]_vars

\* ------------------------------------------------------------------------
\* The resolver on its own: one descriptor in a directory of media files
\* ------------------------------------------------------------------------
SearchDir == <<SRC, ALBUM>>

SearchMedia ==
    LET F(chars, header) == [path |-> join(SearchDir, chars),
                             file |-> MediaFile(header, "m")]
    IN { F(<<"a",".","j","p","g">>, "jpeg_soi"),
         F(<<"A",".","J","P","G">>, "jpeg_soi"),
         F(<<"a",".","J","p","g">>, "png_sig"),
         F(<<"a","-","e","d","i","t","e","d",".","p","n","g">>, "png_sig"),
         F(<<"a",".","x","(","2",")",".","m","o","v">>, "ftyp_qt"),
         F(<<"A","b">>, "ftyp_isom"),
         F(<<"a","c",".","t","x","t">>, "text") }

SearchTitles ==
    { <<"a",".","j","p","g">>,
      <<"a",".","x">>,
      <<"A">>,
      <<"a",".","j","p","g",".","s","u","p","p","l","(","3",")">> }

SearchTree(M, title) ==
    LET d == join(SearchDir, title \o <<".","j","s","o","n">>) IN
    [p \in {m.path : m \in M} \cup {d} |->
        IF p = d THEN JsonFile(DocGood)
        ELSE (CHOOSE m \in M : m.path = p).file]

InitSearch ==
    InitOn({SearchTree(M, t) : M \in SUBSET SearchMedia, t \in SearchTitles}, "scan")

\* get_sidecars pairs the descriptor with the media search_media returns
Resolve ==
    /\ pc = "scan"
    /\ \E S \in get_sidecars(fs, source_folder, edited_word) :
          \E sc \in S :
             /\ json_path' = sc.json
             /\ media_path' = sc.media
    /\ pc' = "resolved"
    /\ UNCHANGED <<fs, run, sidecars, total, success, failed, linked_live, seen_live,
                   out_media, meta, rc, live_path, out_live, trace, copies, fs0>>

NextSearch == Resolve

SpecSearch == InitSearch /\ [][NextSearch]_vars

\* ------------------------------------------------------------------------
\* Properties
\* ------------------------------------------------------------------------
ApplyOps == {"apply", "apply+utime"}

LiveCopies == {c \in copies : c.role = "live"}

\* C1: a second run on the unchanged source tree and the same output root
\* creates no new file and performs no copy.
C1_SecondRunPlacesNothing ==
    [][run > 1 => (DOMAIN fs' = DOMAIN fs /\ copies' = {})]_vars

\* C2: within a run a companion video is copied as a companion at most once,
\* whatever the external write returns, and the run ends with exactly one
\* linked companion for every video copied as a companion.
C2_CompanionLinkedOnce ==
    /\ \A c1, c2 \in LiveCopies : c1.src = c2.src => c1 = c2
    /\ pc = "done" => linked_live = Cardinality({c.src : c \in LiveCopies})

\* C3: no descriptor makes an exception leave its unit of work; a run that
\* found its source root always goes on towards the summary.
C3_NoUnitAbortsTheRun == pc # "raised"

\* C4: a descriptor without media, and a descriptor whose external write
\* returns a non-zero code, each add one to failed and nothing to success.
C4_FailureCounted ==
    [][ (\/ (pc = "loop" /\ pc' = "loop" /\ sidecars' # sidecars)
         \/ (pc = "apply" /\ pc' = "live" /\ rc' # 0))
        => (failed' = failed + 1 /\ success' = success) ]_vars

\* C5: once the primary asset was fused with metadata that carries a
\* timestamp (0 included), the direct filesystem-time write was made and the
\* copy's modification time is that timestamp.
C5_FsTimesWheneverTimestamp ==
    (pc = "live" /\ meta.timestamp # JNull)
        => /\ trace[Len(trace)].op = "apply+utime"
           /\ fs[out_media].mtime = meta.timestamp.n

\* C6: every placement returns a destination that did not exist, named by the
\* desired name or, when that is taken, by the smallest free counter; it adds
\* that one file with the source's bytes and leaves every existing file as it
\* was; distinct copies have distinct destinations and no file's bytes ever
\* change.
C6_NeverOverwrites ==
    /\ [](/\ \A c1, c2 \in copies : c1.dst = c2.dst => c1 = c2
          /\ \A c \in copies : c.dst \in DOMAIN fs /\ fs[c.dst].bytes = fs0[c.src].bytes
          /\ \A p \in DOMAIN fs0 : p \in DOMAIN fs /\ fs[p].bytes = fs0[p].bytes)
    /\ [][ \A u \in { [at |-> "loop", to |-> "extract", src |-> media_path', dst |-> out_media'],
                       [at |-> "copy_live", to |-> "apply_live", src |-> live_path', dst |-> out_live'] } :
             (pc = u.at /\ pc' = u.to) =>
                LET d    == desired_name(fs, u.src)
                    dir  == output_folder \o SubSeq(u.src.dir, Len(source_folder) + 1, Len(u.src.dir))
                    N(n) == join(dir, splitext(d)[1] \o <<"(">> \o str(n) \o <<")">> \o splitext(d)[2])
                IN  /\ ~exists(fs, u.dst)
                    /\ DOMAIN fs' = DOMAIN fs \cup {u.dst}
                    /\ fs'[u.dst] = fs[u.src]
                    /\ \A p \in DOMAIN fs : fs'[p] = fs[p]
                    /\ \/ u.dst = join(dir, d)
                       \/ /\ exists(fs, join(dir, d))
                          /\ \E n \in 1..Cardinality(DOMAIN fs) :
                                /\ u.dst = N(n)
                                /\ \A m \in 1..(n - 1) : exists(fs, N(m)) ]_vars

\* C6 witness: two different source files with the same desired name were
\* placed under the plain name and under the name with counter 1.
C6_Witness ==
    \E c1, c2 \in copies :
        /\ c1.src # c2.src
        /\ desired_name(fs, c1.src) = desired_name(fs, c2.src)
        /\ c1.dst.name = <<"a",".","j","p","g">>
        /\ c2.dst.name = <<"a","(","1",")",".","j","p","g">>

\* C7: the resolver returns the first candidate that exists with exact case;
\* failing that a file whose casefold equals the first candidate that has
\* such a file; failing that a file that starts with the stem (casefolded)
\* and sniffs as a media kind; failing that nothing.  Candidates are ordered
\* by pass, then extension, then variant.
C7_PhaseOrder ==
    pc = "resolved" =>
      LET title == sanitize_json_title(splitext(json_path.name)[1])
          stem  == splitext(title)[1]
          C     == Candidates(title, edited_word)
          V     == 7 + 2 * (MaxDup - 1)
          files == {p \in DOMAIN fs : p.dir = json_path.dir}
          Exact(i) == join(json_path.dir, C[i]) \in DOMAIN fs
          Fold(i)  == \E f \in files : casefold(f.name) = casefold(C[i])
          Pref(f)  == /\ startswith(casefold(f.name), casefold(stem))
                      /\ sniff_type(fs, f)[1] \in {"jpeg", "png", "tiff", "heic", "mov", "mp4"}
      IN  /\ \A k \in 1..Len(media_exts), v \in 1..V :
                C[(k - 1) * V + v] = add_variants(stem, media_exts[k], edited_word)[v]
          /\ Len(C) \in {Len(media_exts) * V, 2 * Len(media_exts) * V}
          /\ \A k \in 1..Len(media_exts), v \in 1..V :
                Len(C) > Len(media_exts) * V =>
                    C[(Len(media_exts) + k - 1) * V + v]
                        = add_variants(title, media_exts[k], edited_word)[v]
          /\ IF \E i \in DOMAIN C : Exact(i)
             THEN \E i \in DOMAIN C :
                     /\ Exact(i) /\ \A k \in 1..(i - 1) : ~Exact(k)
                     /\ media_path = join(json_path.dir, C[i])
             ELSE IF \E i \in DOMAIN C : Fold(i)
             THEN \E i \in DOMAIN C :
                     /\ Fold(i) /\ \A k \in 1..(i - 1) : ~Fold(k)
                     /\ media_path \in files
                     /\ casefold(media_path.name) = casefold(C[i])
             ELSE IF \E f \in files : Pref(f)
             THEN media_path \in files /\ Pref(media_path)
             ELSE media_path = NoPath

\* C7 witness: no candidate exists with exact case and the descriptor was
\* resolved to a file that matches a candidate only after case folding.
C7_Witness ==
    /\ pc = "resolved"
    /\ media_path # NoPath
    /\ LET C == Candidates(sanitize_json_title(splitext(json_path.name)[1]), edited_word)
       IN  /\ \A i \in DOMAIN C : join(json_path.dir, C[i]) \notin DOMAIN fs
           /\ \E i \in DOMAIN C : casefold(C[i]) = casefold(media_path.name)

\* C8: every file under the source root stays exactly as it was, no file
\* appears there, every copy lands under the output root, and every
\* metadata or filesystem-time write targets the copy made just before it.
C8_SourceNeverWritten ==
    /\ \A p \in DOMAIN fs0 :
          startswith(p.dir, source_folder) => p \in DOMAIN fs /\ fs[p] = fs0[p]
    /\ \A p \in DOMAIN fs : startswith(p.dir, source_folder) => p \in DOMAIN fs0
    /\ \A c \in copies : startswith(c.dst.dir, output_folder)
    /\ \A i \in DOMAIN trace :
          trace[i].op \in ApplyOps =>
             /\ startswith(trace[i].dst.dir, output_folder)
             /\ \E k \in 1..(i - 1) : trace[k].op = "copy" /\ trace[k].dst = trace[i].dst

\* C8 witness: a run ended after a copy whose tags and modification time
\* were rewritten.
C8_Witness ==
    /\ pc = "done"
    /\ \E c \in copies : /\ fs[c.dst].mtime # fs0[c.src].mtime
                         /\ fs[c.dst].exif # fs0[c.src].exif

\* C9: an unresolved descriptor ends its unit with nothing copied or fused;
\* a write comes after the copy of the same unit and targets it; the
\* companion search comes after the primary's write and only for a primary
\* that does not sniff as a video; a companion is copied right after the
\* search that found it, and only while it is not in seen_live.
C9_UnitStateMachine ==
    /\ [](/\ \A i \in DOMAIN trace :
               /\ trace[i].op = "missing" => Len(trace) = 1
               /\ trace[i].op \in ApplyOps =>
                     \E k \in 1..(i - 1) :
                        trace[k].op = "copy" /\ trace[k].dst = trace[i].dst
               /\ trace[i].op = "search" =>
                     /\ i = 4
                     /\ trace[1].op = "copy" /\ trace[1].src = trace[i].src
                     /\ trace[3].op \in ApplyOps /\ trace[3].dst = trace[1].dst
                     /\ sniff_type(fs, trace[i].src)[1] \notin {"mov", "mp4"}
               /\ (i > 1 /\ trace[i].op = "copy") =>
                     trace[i - 1].op = "search" /\ trace[i - 1].dst = trace[i].src
          /\ pc \in {"copy_live", "apply_live"} =>
               live_path # NoPath /\ live_path \notin seen_live)
    /\ [][ (pc = "loop" /\ pc' = "loop" /\ sidecars' # sidecars)
            => (fs' = fs /\ copies' = copies /\ success' = success) ]_vars

\* C9 witness: a unit went through copy, extract, write, search, companion
\* copy and companion write.
C9_Witness ==
    /\ pc = "loop"
    /\ Len(trace) = 6
    /\ trace[5].op = "copy"
    /\ trace[6].op \in ApplyOps

\* C10: within a run no source path is copied to the output more than once.
C10_OneCopyPerSource ==
    \A p \in DOMAIN fs0 : Cardinality({c \in copies : c.src = p}) <= 1

====
